---- MODULE Spec2Model ----
(***************************************************************************)
(* The account handlers of lib/controllers/usersController.js: register,   *)
(* sign-in, sign-out, password reset, email confirmation and the profile   *)
(* update, over the user collection and the token blacklist.               *)
(***************************************************************************)
EXTENDS Integers, Sequences, FiniteSets, TLC

\* ------------------------------------------------------------------ bounds
MaxUsers == 2
MaxJwt == 2
MaxTok == 2
MaxTicks == 2
MaxOps == 4
MaxRaceOps == 2

\* ------------------------------------------------------------------ inputs
Names == {"anna", "bert"}
Emails == {"a@x.com", "b@x.com"}
\* what a profile update asks for; a value is new to the user until it has been set
NewNames == {"bert"}
NewLanguages == {"de_DE"}
CurrentPasswords == {"longenough1", "longenough2"}
\* names and addresses are interchangeable: the first account registered is this one
FirstName == "anna"
FirstEmail == "a@x.com"
NewPasswords == {"longenough2", "short"}
RegPasswords == {"longenough1", "short"}
DefaultLanguage == "en_US"
CallIds == {1, 2}
\* what two profile updates of one user ask for when they race
RaceNames == {"carl", "dora"}
RacePasswords == {"longenough2", "longenough3"}
RaceEmails == {"b@x.com"}
RaceCurrentPasswords == {"longenough1"}

\* ------------------------------------------------------------------ constants of the program
MinPasswordLength == 8
ResetValidHours == 12

\* a JS value that is undefined or '' is falsy; both are written ""
Absent == ""
\* tokens of the user document: a generated one is a positive number
EmptyToken == 0
Undefined == 0 - 1
Tok(n) == n
\* the clock advances in steps of this many hours
TickHours == ResetValidHours

\* ------------------------------------------------------------------ responses
R(kind, msg) == [kind |-> kind, message |-> msg]

MsgBoth == "You cannot change your email address and password in the same request."
MsgSupply == "To change your password or email address, please supply your current password."
MsgMinLen == "New password should have at least 8 characters"
MsgNotCorrect == "Current password not correct."
MsgNoChange == "No changed properties supplied. User remains unchanged."
MsgSaved == "User successfully saved."
MsgEmailInvalid == "New email address invalid or an user with the email address already existsh."
MsgResetImpossible == "Password reset for this user not possible"
MsgResetExpired == "Password reset token expired"
MsgResetDone == "Password successfully changed. You can now login with your new password"
MsgResetInit == "Password reset initiated"
MsgConfirmInvalid == "invalid email confirmation token"
MsgConfirmed == "E-Mail successfully confirmed. Thank you"
MsgSignedOut == "Successfully signed out"
MsgSignedIn == "Successfully signed in"
MsgRegistered == "Successfully registered new user"
MsgNoJwtCreated == "User successfully created but unable to create jwt token"
MsgNoJwt == "unable to create jwt token"
MsgDuplicate == "Duplicate user detected"
MsgParameter == "Parameter validation failed"
MsgInternal == "store failure"

\* errors the store's save rejects with
DuplicateErr == [message |-> MsgDuplicate, errors |-> {}]
ValidationErr(f) == [message |-> "User validation failed", errors |-> {f}]
OtherErr == [message |-> MsgInternal, errors |-> {}]
NoErr == [message |-> "", errors |-> {}]

handleUserError(err) ==
  IF err.message = MsgDuplicate THEN R("BadRequest", err.message)
  ELSE IF err.errors # {} THEN R("UnprocessableEntity", MsgParameter)
  ELSE R("InternalServer", err.message)

\* ------------------------------------------------------------------ the user model
Hash(p) == <<"bcrypt", p>>
Plain(p) == <<"plain", p>>

validatePassword(p) == Len(p) >= MinPasswordLength

checkPassword(user, p) == user.password = Hash(p)

NewUser(name, email, password, language) ==
  [name |-> name, email |-> email, unconfirmedEmail |-> Absent,
   password |-> Plain(password), language |-> language,
   resetPasswordToken |-> Undefined, resetPasswordExpires |-> Undefined,
   emailConfirmationToken |-> EmptyToken, emailIsConfirmed |-> FALSE]

Others(us, uid) == {o \in 1..Len(us) : o # uid}

\* what save() rejects a document with: field rules first, then the unique indexes
SaveError(us, uid, doc, mod) ==
  IF "password" \in mod /\ ~validatePassword(doc.password[2]) THEN ValidationErr("password")
  ELSE IF "unconfirmedEmail" \in mod
          /\ \E o \in Others(us, uid) : us[o].email = doc.unconfirmedEmail
    THEN ValidationErr("unconfirmedEmail")
  ELSE IF \/ "name" \in mod /\ \E o \in Others(us, uid) : us[o].name = doc.name
          \/ "email" \in mod /\ \E o \in Others(us, uid) : us[o].email = doc.email
    THEN DuplicateErr
  ELSE NoErr

\* a new address is pending on the document
NewAddress(doc, mod) == "unconfirmedEmail" \in mod /\ doc.unconfirmedEmail # Absent

\* a pre-save hook that hashes a changed password and leaves the reset token pending
PreSaveKeepsResetToken(doc, mod, tok) ==
  LET d1 == IF "password" \in mod THEN [doc EXCEPT !.password = Hash(doc.password[2])] ELSE doc
  IN IF "unconfirmedEmail" \in mod /\ doc.unconfirmedEmail # Absent
     THEN [d1 EXCEPT !.emailConfirmationToken = tok]
     ELSE d1

\* the pre-save hook: a changed password is hashed and consumes the reset token,
\* a new unconfirmedEmail gets a fresh confirmation token
PreSave(doc, mod, tok) ==
  LET d1 == IF "password" \in mod
            THEN [doc EXCEPT !.password = Hash(doc.password[2]),
                             !.resetPasswordToken = Undefined,
                             !.resetPasswordExpires = Undefined]
            ELSE doc
  IN IF NewAddress(doc, mod) THEN [d1 EXCEPT !.emailConfirmationToken = Tok(tok)] ELSE d1

PreSaveMod(doc, mod) ==
  mod \cup (IF "password" \in mod THEN {"resetPasswordToken", "resetPasswordExpires"} ELSE {})
      \cup (IF NewAddress(doc, mod) THEN {"emailConfirmationToken"} ELSE {})

\* a save whose write is lost
WriteDocLost(stored, doc, mod) == stored

\* save() of a loaded document writes its modified paths, and only those
WriteDoc(stored, doc, mod) ==
  [f \in DOMAIN stored |-> IF f \in mod THEN doc[f] ELSE stored[f]]

Saved(us, uid, doc, mod, tok) ==
  [us EXCEPT ![uid] = WriteDoc(us[uid], PreSave(doc, mod, tok), PreSaveMod(doc, mod))]

\* findOne: the first of the documents that match, 0 when there is none
FindOne(matching) ==
  IF matching = {} THEN 0 ELSE CHOOSE i \in matching : \A j \in matching : i <= j

\* ------------------------------------------------------------------ state
\* users: the user collection; jwts[t]: the user token t was minted for; blacklist: the
\* tokens revoked; now: the clock, in hours; nextTok: the next reset or confirmation token;
\* calls: the suspended updateUser requests; last: what the last finished request did;
\* changed: the tokens that made a password change; ops: the requests accepted so far;
\* retired: the reset tokens no longer pending, each with what ended it
VARIABLES users, jwts, blacklist, now, nextTok, calls, last, changed, ops, retired

vars == <<users, jwts, blacklist, now, nextTok, calls, last, changed, ops, retired>>

addTokenToBlacklist(bl, t) == bl \cup {t}

isRevoked(t) == t \in blacklist

Idle == [pc |-> "idle"]

NoArgs == [none |-> TRUE]

\* what the last finished request did: its inputs, the responses it sent in order,
\* how often it called save(), the tokens it blacklisted, and what it observed
Done(op, args, responses, saves, revoked, info) ==
  [op |-> op, args |-> args, responses |-> responses, saves |-> saves,
   revoked |-> revoked, info |-> info]

Init ==
  /\ users = <<>>
  /\ jwts = <<>>
  /\ blacklist = {}
  /\ now = 0
  /\ nextTok = 1
  /\ calls = [c \in CallIds |-> Idle]
  /\ last = Done("none", NoArgs, <<>>, 0, {}, NoArgs)
  /\ changed = {}
  /\ ops = 0
  /\ retired = {}

\* moment.utc().isAfter(moment.utc(expires)); moment.utc(undefined) is the current time
isAfter(t, expires) == expires # Undefined /\ t > expires

EmailKnown(email) == \E i \in 1..Len(users) : users[i].email = email

\* the reset token pending for a user, if any, marked with what ends it
Retire(why, user) ==
  IF user.resetPasswordToken = Undefined THEN {} ELSE {<<why, user.resetPasswordToken>>}

\* ------------------------------------------------------------------ handlers
registerUser(name, email, password, language, mintOk) ==
  LET uid == Len(users) + 1
      doc == NewUser(name, email, password, language)
      mod == {"name", "email", "password", "language"}
      err == SaveError(users, uid, doc, mod)
      args == [name |-> name, email |-> email]
  IN /\ Len(users) < MaxUsers
     /\ mintOk => Len(jwts) < MaxJwt
     /\ IF err # NoErr
        THEN /\ last' = Done("registerUser", args, <<handleUserError(err)>>, 1, {},
                             [created |-> FALSE])
             /\ UNCHANGED <<users, jwts>>
        ELSE /\ users' = Append(users, PreSave(doc, mod, nextTok))
             /\ IF mintOk
                THEN /\ jwts' = Append(jwts, uid)
                     /\ last' = Done("registerUser", args, <<R("Created", MsgRegistered)>>, 1, {},
                                     [created |-> TRUE])
                ELSE /\ jwts' = jwts
                     /\ last' = Done("registerUser", args,
                                     <<R("InternalServer", MsgNoJwtCreated)>>, 1, {},
                                     [created |-> TRUE])
     /\ UNCHANGED <<blacklist, now, nextTok, calls, changed, retired>>

signIn(uid, mintOk) ==
  /\ uid \in 1..Len(users)
  /\ mintOk => Len(jwts) < MaxJwt
  /\ IF mintOk
     THEN /\ jwts' = Append(jwts, uid)
          /\ last' = Done("signIn", [uid |-> uid], <<R("Authorized", MsgSignedIn)>>, 0, {},
                          [token |-> Len(jwts) + 1])
     ELSE /\ jwts' = jwts
          /\ last' = Done("signIn", [uid |-> uid], <<R("InternalServer", MsgNoJwt)>>, 0, {},
                          [token |-> 0])
  /\ UNCHANGED <<users, blacklist, now, nextTok, calls, changed, retired>>

\* a sign-out that answers and revokes nothing
signOutOnlyAnswers(t) ==
  /\ t \in 1..Len(jwts)
  /\ blacklist' = blacklist
  /\ last' = Done("signOut", [jwt |-> t], <<R("Ok", MsgSignedOut)>>, 0, {},
                  [wasRevoked |-> isRevoked(t)])
  /\ UNCHANGED <<users, jwts, now, nextTok, calls, changed, retired>>

\* lines 93-97: the handler does not look at the blacklist before it adds to it, so a token
\* that two requests carried through authentication is signed out twice
signOut(t) ==
  /\ t \in 1..Len(jwts)
  /\ blacklist' = addTokenToBlacklist(blacklist, t)
  /\ last' = Done("signOut", [jwt |-> t], <<R("Ok", MsgSignedOut)>>, 0,
                  blacklist' \ blacklist, [wasRevoked |-> isRevoked(t)])
  /\ UNCHANGED <<users, jwts, now, nextTok, calls, changed, retired>>

\* a reset request that keeps a token already pending and only extends it
initPasswordResetKeepsPending(us, uid) ==
  [us EXCEPT ![uid].resetPasswordToken = IF @ = Undefined THEN nextTok ELSE @,
             ![uid].resetPasswordExpires = now + ResetValidHours]

\* user.initPasswordReset(): a fresh token, valid for 12 hours, saved, then mailed
initPasswordReset(us, uid) ==
  [us EXCEPT ![uid].resetPasswordToken = Tok(nextTok),
             ![uid].resetPasswordExpires = now + ResetValidHours]

\* a lookup that takes any user for the one asked for
RequestLookupAny(us, email) == FindOne(1..Len(us))

\* line 113: the user with this email
RequestLookup(us, email) == FindOne({i \in 1..Len(us) : us[i].email = email})

requestResetPassword(email, storeOk) ==
  LET uid == RequestLookup(users, email)
      args == [email |-> email]
      known == EmailKnown(email)
  IN /\ IF uid = 0
        THEN /\ last' = Done("requestResetPassword", args,
                             <<R("Forbidden", MsgResetImpossible)>>, 0, {},
                             [found |-> FALSE, emailKnown |-> known, notified |-> FALSE])
             /\ UNCHANGED <<users, nextTok, retired>>
        ELSE IF ~storeOk
        THEN /\ last' = Done("requestResetPassword", args, <<handleUserError(OtherErr)>>, 1, {},
                             [found |-> TRUE, emailKnown |-> known, notified |-> FALSE])
             /\ UNCHANGED <<users, nextTok, retired>>
        ELSE /\ nextTok <= MaxTok
             /\ users' = initPasswordReset(users, uid)
             /\ nextTok' = nextTok + 1
             /\ retired' = retired \cup Retire("superseded", users[uid])
             /\ last' = Done("requestResetPassword", args, <<R("Ok", MsgResetInit)>>, 1, {},
                             [found |-> TRUE, emailKnown |-> known, notified |-> TRUE])
     /\ UNCHANGED <<jwts, blacklist, now, calls, changed>>

\* a lookup that ignores the reset token
ResetLookupByEmail(us, email, token) == FindOne({i \in 1..Len(us) : us[i].email = email})

\* line 146: the user with this email and this reset token
ResetLookup(us, email, token) ==
  FindOne({i \in 1..Len(us) : us[i].email = email /\ us[i].resetPasswordToken = token})

\* an expiry check that never fires
TokenExpiredNever(t, user) == FALSE

\* line 153
TokenExpired(t, user) == isAfter(t, user.resetPasswordExpires)

\* line 154
ExpiredResponse == R("Forbidden", MsgResetExpired)

\* is there a user with this email whose pending reset token is the one supplied
ResetMatches(email, token) ==
  \E i \in 1..Len(users) : users[i].email = email /\ users[i].resetPasswordToken = token

\* a reset that signs the user out of every session
ResetRevocationAll(bl, uid) == bl \cup {t \in 1..Len(jwts) : jwts[t] = uid}

\* lines 157-165: the blacklist after a password reset; the handler never adds to it
ResetRevocation(bl, uid) == bl

resetPassword(email, token, password, storeOk) ==
  LET uid == ResetLookup(users, email, token)
      args == [email |-> email, token |-> token]
      info(touched, after) ==
        [found |-> uid # 0, matches |-> ResetMatches(email, token),
         emailKnown |-> EmailKnown(email),
         expired |-> \E i \in 1..Len(users) :
                       /\ users[i].email = email /\ users[i].resetPasswordToken = token
                       /\ users[i].resetPasswordExpires # Undefined
                       /\ now > users[i].resetPasswordExpires,
         spent |-> <<"spent", token>> \in retired,
         superseded |-> <<"superseded", token>> \in retired,
         uid |-> uid, minted |-> Len(jwts), touched |-> touched,
         tokenAfter |-> after.resetPasswordToken,
         expiresAfter |-> after.resetPasswordExpires]
      none == [resetPasswordToken |-> Undefined, resetPasswordExpires |-> Undefined]
      doc == [users[uid] EXCEPT !.password = Plain(password)]
      err == IF storeOk THEN SaveError(users, uid, doc, {"password"}) ELSE OtherErr
  IN /\ IF uid = 0
        THEN /\ UNCHANGED <<users, blacklist, retired>>
             /\ last' = Done("resetPassword", args, <<R("Forbidden", MsgResetImpossible)>>,
                             0, {}, info(FALSE, none))
        ELSE IF TokenExpired(now, users[uid])
        THEN /\ UNCHANGED <<users, blacklist, retired>>
             /\ last' = Done("resetPassword", args, <<ExpiredResponse>>, 0, {},
                             info(FALSE, users[uid]))
        ELSE IF err # NoErr
        THEN /\ UNCHANGED <<users, blacklist, retired>>
             /\ last' = Done("resetPassword", args, <<handleUserError(err)>>, 1, {},
                             info(FALSE, users[uid]))
        ELSE /\ users' = Saved(users, uid, doc, {"password"}, nextTok)
             /\ blacklist' = ResetRevocation(blacklist, uid)
             /\ retired' = retired \cup Retire("spent", users[uid])
             /\ last' = Done("resetPassword", args, <<R("Ok", MsgResetDone)>>, 1,
                             blacklist' \ blacklist, info(users' # users, users'[uid]))
     /\ UNCHANGED <<jwts, now, nextTok, calls, changed>>

\* line 184: the user with this address, confirmed or pending, and this confirmation token
ConfirmLookup(us, email, token) ==
  FindOne({i \in 1..Len(us) : /\ (us[i].email = email \/ us[i].unconfirmedEmail = email)
                              /\ us[i].emailConfirmationToken = token})

ConfirmMatches(email, token) ==
  \E i \in 1..Len(users) : /\ (users[i].email = email \/ users[i].unconfirmedEmail = email)
                           /\ users[i].emailConfirmationToken = token

\* a confirmation that leaves the token in place
MarkConfirmedKeepToken(user) == [user EXCEPT !.emailIsConfirmed = TRUE]

\* lines 191-193
MarkConfirmed(user) ==
  [user EXCEPT !.emailConfirmationToken = EmptyToken, !.emailIsConfirmed = TRUE]

\* the address confirmed becomes the user's email when it was the pending one
PromoteEmail(doc, email) ==
  IF doc.unconfirmedEmail = email
  THEN [doc EXCEPT !.email = email, !.unconfirmedEmail = Absent]
  ELSE doc

\* the paths of a loaded document that were given another value
ModifiedPaths(user, doc) == {f \in DOMAIN user : doc[f] # user[f]}

confirmEmailAddress(email, token, storeOk) ==
  LET uid == ConfirmLookup(users, email, token)
      args == [email |-> email, token |-> token]
      info(after) ==
        [found |-> uid # 0, matches |-> ConfirmMatches(email, token),
         emailKnown |-> EmailKnown(email), uid |-> uid,
         pending |-> uid # 0 /\ users[uid].unconfirmedEmail = email,
         emptyBefore |-> uid # 0 /\ users[uid].emailConfirmationToken = EmptyToken,
         touched |-> uid # 0 /\ after # users[uid], after |-> after]
      doc == PromoteEmail(MarkConfirmed(users[uid]), email)
      mod == ModifiedPaths(users[uid], doc)
      err == IF storeOk THEN SaveError(users, uid, doc, mod) ELSE OtherErr
  IN /\ IF uid = 0
        THEN /\ users' = users
             /\ last' = Done("confirmEmailAddress", args, <<R("Forbidden", MsgConfirmInvalid)>>,
                             0, {}, info(NoArgs))
        ELSE IF err # NoErr
        THEN /\ users' = users
             /\ last' = Done("confirmEmailAddress", args, <<handleUserError(err)>>, 1, {},
                             info(users[uid]))
        ELSE /\ users' = Saved(users, uid, doc, mod, nextTok)
             /\ last' = Done("confirmEmailAddress", args, <<R("Ok", MsgConfirmed)>>, 1, {},
                             info(users'[uid]))
     /\ UNCHANGED <<jwts, blacklist, now, nextTok, calls, changed, retired>>

\* ------------------------------------------------------------------ updateUser
\* a check that lets email and newPassword through together
RejectBothNever(email, newPassword) == FALSE

\* line 253
RejectBoth(email, newPassword) == email # Absent /\ newPassword # Absent

\* line 261
NeedsCurrentPassword(email, newPassword) == newPassword # Absent \/ email # Absent

\* line 263
RejectMissing(email, currentPassword, newPassword) ==
  NeedsCurrentPassword(email, newPassword) /\ currentPassword = Absent

\* a check that lets any new password through
RejectShortNever(email, newPassword) == FALSE

\* line 269
RejectShort(email, newPassword) ==
  NeedsCurrentPassword(email, newPassword) /\ newPassword # Absent /\ ~validatePassword(newPassword)

\* a password check that always succeeds
oldPasswordAlwaysCorrect(user, email, currentPassword, newPassword) == TRUE

\* lines 258-266: what the promise p resolves with
oldPasswordIsCorrect(user, email, currentPassword, newPassword) ==
  IF NeedsCurrentPassword(email, newPassword) THEN checkPassword(user, currentPassword) ELSE TRUE

\* an update that writes the new address straight into email
ApplyFieldsDirectEmail(user, name, language, email, newPassword) ==
  [user EXCEPT
     !.name = IF name # Absent /\ user.name # name THEN name ELSE @,
     !.language = IF language # Absent /\ user.language # language THEN language ELSE @,
     !.email = IF email # Absent /\ user.email # email THEN email ELSE @,
     !.password = IF newPassword # Absent THEN Plain(newPassword) ELSE @]

\* lines 286-308: only the values given, non-empty and different are assigned
ApplyFields(user, name, language, email, newPassword) ==
  [user EXCEPT
     !.name = IF name # Absent /\ user.name # name THEN name ELSE @,
     !.language = IF language # Absent /\ user.language # language THEN language ELSE @,
     !.unconfirmedEmail = IF email # Absent /\ user.email # email THEN email ELSE @,
     !.password = IF newPassword # Absent THEN Plain(newPassword) ELSE @]

\* lines 298 and 305: the advisory messages queued, in order
Msgs(user, email, newPassword) ==
  (IF email # Absent /\ user.email # email THEN <<"E-Mail changed">> ELSE <<>>)
  \o (IF newPassword # Absent THEN <<"Password changed">> ELSE <<>>)

\* line 306
SignOutFlag(newPassword) == newPassword # Absent

\* lines 286-308: somethingsChanged
SomethingsChanged(user, name, language, email, newPassword) ==
  \/ name # Absent /\ user.name # name
  \/ language # Absent /\ user.language # language
  \/ email # Absent /\ user.email # email
  \/ newPassword # Absent

\* lines 310-312: the response sent before the save
EarlyResponses(somethingsChanged) ==
  IF somethingsChanged = FALSE THEN <<R("Ok", MsgNoChange)>> ELSE <<>>

\* a continuation that never revokes
RevocationNever(bl, mustSignOut, jwt) == bl

\* a continuation that revokes every token of the calling token's user
RevocationAll(bl, mustSignOut, jwt) ==
  IF mustSignOut = TRUE
  THEN bl \cup {t \in 1..Len(jwts) : jwts[t] = jwts[jwt]}
  ELSE bl

\* lines 318-320
Revocation(bl, mustSignOut, jwt) == IF mustSignOut = TRUE THEN addTokenToBlacklist(bl, jwt) ELSE bl

\* line 321
SavedResponse(msgs) == [kind |-> "Ok", message |-> MsgSaved, msgs |-> msgs]

\* lines 323-328
CatchResponse(err) ==
  IF "unconfirmedEmail" \in err.errors
  THEN R("UnprocessableEntity", MsgEmailInvalid)
  ELSE handleUserError(err)

\* how a request relates to the user it is made for
Tags(user, name, language, email, currentPassword, newPassword) ==
  (IF email # Absent /\ newPassword # Absent THEN {"emailAndPassword"} ELSE {})
  \cup (IF email # Absent THEN {"email"} ELSE {})
  \cup (IF email # Absent /\ email # user.email THEN {"newEmail"} ELSE {})
  \cup (IF newPassword # Absent THEN {"newPassword"} ELSE {})
  \cup (IF newPassword # Absent /\ Len(newPassword) < MinPasswordLength
        THEN {"shortNewPassword"} ELSE {})
  \cup (IF currentPassword = Absent THEN {"noCurrentPassword"}
        ELSE IF user.password = Hash(currentPassword) THEN {"correctCurrentPassword"}
        ELSE {"wrongCurrentPassword"})
  \cup (IF (name # Absent /\ name # user.name) \/ (language # Absent /\ language # user.language)
        THEN {"newNameOrLanguage"} ELSE {})
  \cup (IF /\ newPassword = Absent
           /\ name \in {Absent, user.name}
           /\ language \in {Absent, user.language}
           /\ email \in {Absent, user.email}
        THEN {"nothingChanges"} ELSE {})

\* the value save() stores for a value assigned to the document
Stored(v) == IF v \in {Plain(p) : p \in NewPasswords \cup RacePasswords} THEN Hash(v[2]) ELSE v

\* how a finished updateUser request stood to the other one: its slot, whether the other
\* was suspended when it saved, the paths both wrote when the other saved first while
\* this one was suspended, the values it assigned, and whether the currentPassword it
\* supplied matched the document it loaded and the document stored when it saved
NoRace(c) ==
  [call |-> c, overlap |-> FALSE, both |-> {}, wrote |-> <<>>,
   matchedLoaded |-> TRUE, matchedStored |-> TRUE]

\* what a finished updateUser request is remembered by: the user and token it was for, its
\* tags, the address it asked for, the paths it assigned, whether its save went through,
\* whether it changed the collection or the blacklist, and the stored addresses around it
UpdateInfo(uid, t, tags, email, mutated, saved, touched, before, after, race) ==
  [uid |-> uid, jwt |-> t, tags |-> tags, email |-> email, mutated |-> mutated,
   saved |-> saved, touched |-> touched, minted |-> Len(jwts),
   emailBefore |-> before.email, emailAfter |-> after.email,
   unconfirmedAfter |-> after.unconfirmedEmail, race |-> race]

\* lines 248-316: the checks made at once, then the continuation of the password check,
\* which reads and writes the request's own document only
updateUser(c, t, name, language, email, currentPassword, newPassword) ==
  /\ calls[c].pc = "idle"
  /\ t \in 1..Len(jwts)
  /\ ~isRevoked(t)
  /\ LET uid == jwts[t]
         user == users[uid]
         tags == Tags(user, name, language, email, currentPassword, newPassword)
         info == UpdateInfo(uid, t, tags, email, {}, FALSE, FALSE, user, user, NoRace(c))
         fail(msg) == Done("updateUser", NoArgs, <<R("BadRequest", msg)>>, 0, {}, info)
         doc == ApplyFields(user, name, language, email, newPassword)
     IN IF RejectBoth(email, newPassword)
        THEN last' = fail(MsgBoth) /\ calls' = calls
        ELSE IF RejectMissing(email, currentPassword, newPassword)
        THEN last' = fail(MsgSupply) /\ calls' = calls
        ELSE IF RejectShort(email, newPassword)
        THEN last' = fail(MsgMinLen) /\ calls' = calls
        ELSE IF oldPasswordIsCorrect(user, email, currentPassword, newPassword) = FALSE
        THEN /\ last' = Done("updateUser", NoArgs,
                             <<R("BadRequest", MsgNotCorrect), SavedResponse(<<>>)>>,
                             0, {}, info)
             /\ calls' = calls
        ELSE /\ calls' = [calls EXCEPT ![c] =
                  [pc |-> "save", uid |-> uid, jwt |-> t, loaded |-> user, user |-> doc,
                   signOut |-> SignOutFlag(newPassword),
                   msgs |-> Msgs(user, email, newPassword),
                   responses |-> EarlyResponses(
                                   SomethingsChanged(user, name, language, email, newPassword)),
                   tags |-> tags, email |-> email,
                   currentPassword |-> IF NeedsCurrentPassword(email, newPassword)
                                       THEN currentPassword ELSE Absent]]
             /\ last' = last
  /\ UNCHANGED <<users, jwts, blacklist, now, nextTok, changed, retired>>

\* a failed save that signs the caller out all the same
CatchRevocationAsSaved(bl, mustSignOut, jwt) ==
  IF mustSignOut = TRUE THEN addTokenToBlacklist(bl, jwt) ELSE bl

\* lines 323-329: the blacklist after a failed save; the catch never adds to it
CatchRevocation(bl, mustSignOut, jwt) == bl

\* lines 315-329: req.user.save() is carried out by the store, and its continuation runs
updateUserSave(c, storeOk) ==
  LET call == calls[c]
      mod == ModifiedPaths(call.loaded, call.user)
      err == IF storeOk THEN SaveError(users, call.uid, call.user, mod) ELSE OtherErr
      other == {d \in CallIds \ {c} : calls[d].pc = "save" /\ calls[d].uid = call.uid}
      racedWith == /\ last.op = "updateUser"
                   /\ last.info.saved
                   /\ last.info.uid = call.uid
                   /\ last.info.race.call # c
                   /\ last.info.race.overlap
      race == [call |-> c, overlap |-> other # {},
               both |-> IF racedWith THEN last.info.mutated \cap mod ELSE {},
               wrote |-> [f \in mod |-> call.user[f]],
               matchedLoaded |-> call.currentPassword # Absent
                                   => checkPassword(call.loaded, call.currentPassword),
               matchedStored |-> call.currentPassword # Absent
                                   => checkPassword(users[call.uid], call.currentPassword)]
      info(saved, touched) ==
        UpdateInfo(call.uid, call.jwt, call.tags, call.email, mod, saved, touched,
                   users[call.uid], users'[call.uid], race)
  IN /\ call.pc = "save"
     /\ IF err # NoErr
        THEN /\ UNCHANGED <<users, nextTok, changed, retired>>
             /\ blacklist' = CatchRevocation(blacklist, call.signOut, call.jwt)
             /\ last' = Done("updateUser", NoArgs, Append(call.responses, CatchResponse(err)),
                             1, blacklist' \ blacklist, info(FALSE, blacklist' # blacklist))
        ELSE /\ NewAddress(call.user, mod) => nextTok <= MaxTok
             /\ users' = Saved(users, call.uid, call.user, mod, nextTok)
             /\ nextTok' = IF NewAddress(call.user, mod) THEN nextTok + 1 ELSE nextTok
             /\ blacklist' = Revocation(blacklist, call.signOut, call.jwt)
             /\ changed' = IF "password" \in mod THEN changed \cup {call.jwt} ELSE changed
             /\ retired' = IF "password" \in mod
                           THEN retired \cup Retire("dropped", users[call.uid])
                           ELSE retired
             /\ last' = Done("updateUser", NoArgs,
                             Append(call.responses, SavedResponse(call.msgs)), 1,
                             blacklist' \ blacklist,
                             info(TRUE, users' # users \/ blacklist' # blacklist))
     /\ calls' = [calls EXCEPT ![c] = Idle]
     /\ UNCHANGED <<jwts, now, ops>>

\* ------------------------------------------------------------------ the system
\* time passes; it is only looked at while a reset token is pending
Tick ==
  /\ \E i \in 1..Len(users) : users[i].resetPasswordExpires # Undefined
  /\ now < MaxTicks * TickHours
  /\ now' = now + TickHours
  /\ UNCHANGED <<users, jwts, blacklist, nextTok, calls, last, changed, ops, retired>>

\* no request is suspended
Quiet == \A c \in CallIds : calls[c].pc = "idle"

\* a request is accepted, up to MaxOps of them
Accept == ops < MaxOps /\ ops' = ops + 1

\* the requests are served one after the other
Register ==
  /\ Quiet
  /\ Accept
  /\ \E n \in Names, e \in Emails, p \in RegPasswords, ok \in BOOLEAN :
       /\ users = <<>> => n = FirstName /\ e = FirstEmail
       /\ registerUser(n, e, p, DefaultLanguage, ok)

SignIn == Quiet /\ Accept /\ \E u \in 1..MaxUsers, ok \in BOOLEAN : signIn(u, ok)

SignOut == Quiet /\ Accept /\ \E t \in 1..MaxJwt : signOut(t)

RequestResetPassword ==
  Quiet /\ Accept /\ \E e \in Emails, ok \in BOOLEAN : requestResetPassword(e, ok)

ResetPassword ==
  /\ Quiet
  /\ Accept
  /\ \E e \in Emails, t \in 0..MaxTok, p \in NewPasswords, ok \in BOOLEAN :
       resetPassword(e, t, p, ok)

ConfirmEmailAddress ==
  Quiet /\ Accept /\ \E e \in Emails, t \in 0..MaxTok, ok \in BOOLEAN :
                       confirmEmailAddress(e, t, ok)

UpdateUser ==
  /\ Quiet
  /\ Accept
  /\ \E t \in 1..MaxJwt, n \in NewNames \cup {Absent}, l \in NewLanguages \cup {Absent},
        e \in Emails \cup {Absent}, cp \in CurrentPasswords \cup {Absent},
        np \in NewPasswords \cup {Absent} :
       updateUser(1, t, n, l, e, cp, np)

UpdateUserSave == \E c \in CallIds, ok \in BOOLEAN : updateUserSave(c, ok)

Next ==
  \/ Register
  \/ SignIn
  \/ SignOut
  \/ RequestResetPassword
  \/ ResetPassword
  \/ ConfirmEmailAddress
  \/ UpdateUser
  \/ UpdateUserSave
  \/ Tick

Spec == Init /\ [][Next]_vars

\* ------------------------------------------------------------------ two updates at once
\* one account, signed in twice
RaceInit ==
  /\ users = <<[NewUser(FirstName, FirstEmail, "longenough1", DefaultLanguage)
                 EXCEPT !.password = Hash("longenough1")]>>
  /\ jwts = <<1, 1>>
  /\ blacklist = {}
  /\ now = 0
  /\ nextTok = 1
  /\ calls = [c \in CallIds |-> Idle]
  /\ last = Done("none", NoArgs, <<>>, 0, {}, NoArgs)
  /\ changed = {}
  /\ ops = 0
  /\ retired = {}

\* the suspended requests whose save will ask for a confirmation token
AwaitingToken ==
  {c \in CallIds : /\ calls[c].pc = "save"
                    /\ NewAddress(calls[c].user, ModifiedPaths(calls[c].loaded, calls[c].user))}

\* a request is served while another is suspended; each comes from a session of its own
RaceUpdateUser ==
  /\ ops < MaxRaceOps
  /\ ops' = ops + 1
  /\ \E c \in CallIds, n \in RaceNames \cup {Absent},
        e \in RaceEmails \cup {Absent}, cp \in RaceCurrentPasswords \cup {Absent},
        np \in RacePasswords \cup {Absent} :
       /\ e # Absent => nextTok + Cardinality(AwaitingToken) <= MaxTok
       /\ updateUser(c, c, n, Absent, e, cp, np)

RaceNext ==
  \/ RaceUpdateUser
  \/ UpdateUserSave

\* the store carries out every save it was asked for
RaceSpec == RaceInit /\ [][RaceNext]_vars /\ WF_vars(UpdateUserSave)

\* ------------------------------------------------------------------ properties
Upd == last.op = "updateUser"

Tag(x) == x \in last.info.tags

PasswordChangedByUpdate == Upd /\ last.info.saved /\ Tag("newPassword")

PasswordReset == last.op = "resetPassword" /\ last.responses = <<R("Ok", MsgResetDone)>>

Untouched == last.saves = 0 /\ last.revoked = {} /\ ~last.info.touched

\* C1: the token that made a successful password change through updateUser is revoked in
\* every later state, and a token signIn mints afterwards is not revoked
C1_ChangingTokenRevoked ==
  /\ \A t \in changed : isRevoked(t)
  /\ (last.op = "signIn" /\ last.info.token # 0)
       => /\ ~isRevoked(last.info.token)
          /\ last.info.token \notin changed
          /\ jwts[last.info.token] = last.args.uid

C1_Witness ==
  /\ last.op = "signIn"
  /\ last.info.token # 0
  /\ ~isRevoked(last.info.token)
  /\ \E t \in changed : jwts[t] = last.args.uid /\ isRevoked(t)

\* C2 as claimed: after a successful password change of a user, every token minted for
\* that user before the change is revoked
C2_AllEarlierTokensRevoked ==
  (PasswordChangedByUpdate \/ PasswordReset)
    => \A t \in 1..last.info.minted : jwts[t] = last.info.uid => isRevoked(t)

\* C2 amended: a password change through updateUser revokes the token that made the call
\* and no other; a password change through resetPassword revokes none
C2_OnlyCallingTokenRevoked ==
  /\ PasswordChangedByUpdate => isRevoked(last.info.jwt) /\ last.revoked \subseteq {last.info.jwt}
  /\ PasswordReset => last.revoked = {}

C2_Witness ==
  /\ PasswordChangedByUpdate
  /\ \E t \in 1..last.info.minted :
       t # last.info.jwt /\ jwts[t] = last.info.uid /\ ~isRevoked(t)

\* C3: updateUser with both an email and a newPassword answers BadRequest, whatever else
\* is supplied, and changes neither the user nor the blacklist
C3_EmailAndPasswordRejected ==
  (Upd /\ Tag("emailAndPassword"))
    => /\ last.responses = <<R("BadRequest", MsgBoth)>>
       /\ last.info.mutated = {}
       /\ Untouched

C3_Witness ==
  Upd /\ Tag("emailAndPassword") /\ Tag("correctCurrentPassword") /\ Tag("newNameOrLanguage")

\* C4 as claimed: an updateUser that changes nothing answers "nothing changed" and never
\* calls save()
C4_NothingChangedNeverSaves ==
  (Upd /\ Tag("nothingChanges") /\ (Tag("email") => Tag("correctCurrentPassword")))
    => last.responses[1] = R("Ok", MsgNoChange) /\ last.saves = 0

C6_ShortPasswordRejected ==
  (Upd /\ Tag("shortNewPassword"))
    => /\ Len(last.responses) = 1
       /\ last.responses[1].kind = "BadRequest"
       /\ (~Tag("emailAndPassword") /\ ~Tag("noCurrentPassword"))
            => last.responses[1].message = MsgMinLen
       /\ last.info.mutated = {}
       /\ Untouched

C6_Witness ==
  Upd /\ Tag("shortNewPassword") /\ Tag("correctCurrentPassword") /\ Tag("newNameOrLanguage")
      /\ last.responses[1].message = MsgMinLen

ResetExpiredCase == last.op = "resetPassword" /\ last.info.matches /\ last.info.expired

\* C7 as claimed: resetPassword with a matching but expired token fails with TokenExpired,
\* a category other than Forbidden, and changes nothing
C7_ExpiredIsOwnCategory ==
  ResetExpiredCase
    => /\ Len(last.responses) = 1
       /\ last.responses[1].kind = "TokenExpired"
       /\ Untouched

\* C7 amended: it fails with Forbidden, the category of a non-matching token, under a
\* message of its own, and changes nothing
C7_ExpiredIsForbidden ==
  ResetExpiredCase
    => /\ last.responses = <<R("Forbidden", MsgResetExpired)>>
       /\ last.responses[1].message # MsgResetImpossible
       /\ Untouched

C7_Witness == ResetExpiredCase /\ last.responses[1].kind = "Forbidden"

\* C8: resetPassword and confirmEmailAddress answer a token that matches no user of that
\* address exactly as they answer an address no user has: Forbidden, one message, no change
C8_MismatchLikeUnknown ==
  /\ (last.op = "resetPassword" /\ ~last.info.matches)
       => last.responses = <<R("Forbidden", MsgResetImpossible)>> /\ Untouched
  /\ (last.op = "confirmEmailAddress" /\ ~last.info.matches)
       => last.responses = <<R("Forbidden", MsgConfirmInvalid)>> /\ Untouched

C8_Witness ==
  /\ last.op = "resetPassword"
  /\ ~last.info.matches
  /\ \E i \in 1..Len(users) :
       /\ users[i].email = last.args.email
       /\ users[i].resetPasswordToken \notin {Undefined, last.args.token}

EmailChangedByUpdate == Upd /\ last.info.saved /\ Tag("newEmail")

\* C9: an updateUser that asks for another address leaves email as it is and sets
\* unconfirmedEmail; the email of a user changes only in a successful confirmEmailAddress
C9_EmailOnlyByConfirmation ==
  /\ [](EmailChangedByUpdate
          => /\ last.info.emailAfter = last.info.emailBefore
             /\ last.info.unconfirmedAfter = last.info.email)
  /\ [][\A i \in 1..Len(users) :
          users'[i].email # users[i].email
            => /\ last'.op = "confirmEmailAddress"
               /\ last'.info.uid = i
               /\ last'.responses = <<R("Ok", MsgConfirmed)>>]_vars

C9_Witness ==
  EmailChangedByUpdate /\ Tag("correctCurrentPassword") /\ last.info.unconfirmedAfter # Absent

ConfirmedPending ==
  /\ last.op = "confirmEmailAddress"
  /\ last.responses = <<R("Ok", MsgConfirmed)>>
  /\ last.info.pending

Served(op) == ops' # ops /\ last'.op = op

\* C11: requestResetPassword for an address no user has answers Forbidden and does
\* nothing else: no user changes, no token is generated, nothing is mailed or revoked
C11_UnknownEmailNoEffect ==
  /\ []((last.op = "requestResetPassword" /\ ~last.info.emailKnown)
          => /\ last.responses = <<R("Forbidden", MsgResetImpossible)>>
             /\ last.saves = 0
             /\ last.revoked = {}
             /\ ~last.info.notified)
  /\ [][(Served("requestResetPassword") /\ ~last'.info.emailKnown)
          => UNCHANGED <<users, nextTok, blacklist, jwts, retired>>]_vars

C11_Witness ==
  last.op = "requestResetPassword" /\ ~last.info.emailKnown /\ users # <<>>

\* C12: signOut always answers Ok and leaves its token revoked without a save; the
\* blacklist never loses a token; signing out a revoked token leaves the blacklist as it is
C12_SignOutRevokesForGood ==
  /\ [](last.op = "signOut"
          => /\ last.responses = <<R("Ok", MsgSignedOut)>>
             /\ last.saves = 0
             /\ isRevoked(last.args.jwt)
             /\ last.info.wasRevoked => last.revoked = {})
  /\ [][blacklist \subseteq blacklist']_vars
  /\ [][Served("signOut")
          => /\ users' = users
             /\ last'.info.wasRevoked => blacklist' = blacklist]_vars

C12_Witness == last.op = "signOut" /\ last.info.wasRevoked /\ isRevoked(last.args.jwt)

\* C13: an updateUser with a new password whose save fails revokes nothing, leaves the
\* calling token valid and ends with the error the failure is classified as
C13_RevokedOnlyAfterSave ==
  (Upd /\ Tag("newPassword") /\ last.saves = 1 /\ ~last.info.saved)
    => /\ last.revoked = {}
       /\ ~isRevoked(last.info.jwt)
       /\ ~last.info.touched
       /\ Len(last.responses) = 1
       /\ last.responses[1].kind \in {"BadRequest", "UnprocessableEntity", "InternalServer"}

C13_Witness ==
  /\ Upd /\ Tag("newPassword") /\ last.saves = 1 /\ ~last.info.saved
  /\ last.responses[1].kind = "BadRequest"

\* C14: a successful resetPassword clears resetPasswordToken and resetPasswordExpires
\* together, no user holds a token a reset has consumed, and resetPassword with a
\* consumed token answers Forbidden and changes nothing
C14_ResetTokenSingleUse ==
  /\ PasswordReset
       => last.info.tokenAfter = Undefined /\ last.info.expiresAfter = Undefined
  /\ \A i \in 1..Len(users) :
       /\ <<"spent", users[i].resetPasswordToken>> \notin retired
       /\ users[i].resetPasswordToken = Undefined <=> users[i].resetPasswordExpires = Undefined
  /\ (last.op = "resetPassword" /\ last.info.spent)
       => last.responses = <<R("Forbidden", MsgResetImpossible)>> /\ Untouched

C14_Witness ==
  /\ last.op = "resetPassword"
  /\ last.info.spent
  /\ last.info.emailKnown
  /\ last.responses[1].kind = "Forbidden"

\* C15: a second requestResetPassword replaces the pending token: no user holds the
\* earlier one, and resetPassword with it answers Forbidden and changes nothing
C15_LaterRequestSupersedes ==
  /\ \A i \in 1..Len(users) : <<"superseded", users[i].resetPasswordToken>> \notin retired
  /\ (last.op = "resetPassword" /\ last.info.superseded)
       => last.responses = <<R("Forbidden", MsgResetImpossible)>> /\ Untouched

C15_Witness ==
  /\ last.op = "resetPassword"
  /\ last.info.superseded
  /\ last.responses[1].kind = "Forbidden"
  /\ \E i \in 1..Len(users) :
       users[i].email = last.args.email /\ users[i].resetPasswordToken # Undefined

\* C16: resetPassword never changes the blacklist; the tokens of the user that were
\* valid before a successful reset are valid after it
C16_ResetRevokesNothing ==
  /\ [](last.op = "resetPassword" => last.revoked = {})
  /\ [][Served("resetPassword") => blacklist' = blacklist]_vars

C16_Witness ==
  /\ PasswordReset
  /\ \E t \in 1..last.info.minted : jwts[t] = last.info.uid /\ ~isRevoked(t)

\* C17: of two updateUser requests for one user suspended at the same time, both finish,
\* every save stores all the paths its request assigned, and a path both assigned holds
\* the value of the request that saved last
C17_LastSaveWins ==
  /\ []((Upd /\ last.info.saved)
          => \A f \in last.info.mutated \cup last.info.race.both :
               users[last.info.uid][f] = Stored(last.info.race.wrote[f]))
  /\ \A c \in CallIds : (calls[c].pc = "save") ~> (calls[c].pc = "idle")

C17_Witness ==
  Upd /\ last.info.saved /\ {"name", "password"} \subseteq last.info.race.both

\* C18 as claimed: every request ends with exactly one response
C18_ExactlyOneResponse == last.op # "none" => Len(last.responses) = 1

PersistedCredentialChange == Upd /\ last.info.saved /\ (Tag("newPassword") \/ Tag("newEmail"))

\* C19 as claimed: an updateUser that persists a password or email change supplied a
\* currentPassword that matches the password stored when it saved
C19_PasswordMatchesAtSave == PersistedCredentialChange => last.info.race.matchedStored

\* C19 amended: it supplied a currentPassword that matches the password of the document
\* the request loaded; the password is not looked at again when the save is made
C19_PasswordMatchedWhenLoaded == PersistedCredentialChange => last.info.race.matchedLoaded

C19_Witness ==
  /\ PersistedCredentialChange
  /\ Tag("newPassword")
  /\ last.info.race.matchedLoaded
  /\ ~last.info.race.matchedStored

\* C20 as claimed: confirmEmailAddress never succeeds for a user whose
\* emailConfirmationToken is empty
C20_OnlyPendingConfirms ==
  (last.op = "confirmEmailAddress" /\ last.responses = <<R("Ok", MsgConfirmed)>>)
    => ~last.info.emptyBefore

====
